---- MODULE Spec2Model ----
(***************************************************************************)
(* Model of src/src/iron.rs: the Iron server facade (around, listen), the  *)
(* IronListener dispatch core (Clone, get_config, handle_request) and the  *)
(* collaborators it drives: the transport's serve loop, the request and    *)
(* response adapters, the shared handler and the raw response sink.        *)
(*                                                                         *)
(* One dispatch of handle_request is modelled statement by statement, so   *)
(* that dispatches of different connections interleave as the transport's  *)
(* worker tasks do.                                                        *)
(***************************************************************************)
EXTENDS Naturals, Sequences, FiniteSets, TLC

\* Number of connections the transport accepts in one run.
NConn == 2

Conns == 1..NConn

\* Bind configurations a caller may pass to listen.
BindArgs ==
    {[ip |-> "127.0.0.1", port |-> 3000], [ip |-> "0.0.0.0", port |-> 80]}

\* Request targets of raw requests: the adapter accepts GoodUris only.
GoodUris == {"/a", "/b"}
RawUris == GoodUris \cup {"*"}

\* ::http::status::InternalServerError
InternalServerError == 500

\* b"Internal Server Error"
FallbackBody == "Internal Server Error"

None == [tag |-> "None"]

(***************************************************************************)
(* Values                                                                  *)
(***************************************************************************)

\* Responses a handler may return: a 200 with a known body and a non-200
\* with custom headers.
R200 == [status |-> 200, headers |-> "default", body |-> "hello"]
R404 == [status |-> 404, headers |-> "x-custom", body |-> "not found"]

\* What one invocation of Handler::call does: return Ok(response), return
\* Err(error), or never return (Hang).
Ok(r) == [tag |-> "Ok", res |-> r]
Err(e) == [tag |-> "Err", err |-> e]
Hang == [tag |-> "Hang"]

\* The urls a Request may hold: those the adapter produces and the one a
\* handler may write into the Request it is handed.
ReqUrls == GoodUris \cup {"/rewritten"}

\* One call of a handler: its outcome, and the Request as the call leaves it
\* (the handler is handed &mut Request and may write to it).
Leaves(u, o) == [out |-> o, req |-> [url |-> u]]

\* A handler is a deterministic map from the request to what its call does.
\* The handlers a caller may pass to around: one that answers every request
\* and tells them apart, one that always fails, one that blocks on a request,
\* one that answers some requests and fails on others, and one that rewrites
\* the request's url before it fails.
HPages ==
    [u \in ReqUrls |-> Leaves(u, IF u = "/a" THEN Ok(R200) ELSE Ok(R404))]
HFailing ==
    [u \in ReqUrls |-> Leaves(u, IF u = "/a" THEN Err("e1") ELSE Err("e2"))]
HBlocking ==
    [u \in ReqUrls |-> Leaves(u, IF u = "/a" THEN Hang ELSE Ok(R200))]
HMixed ==
    [u \in ReqUrls |-> Leaves(u, IF u = "/a" THEN Ok(R404) ELSE Err("e1"))]
HRewriting ==
    [u \in ReqUrls |->
        Leaves("/rewritten", IF u = "/a" THEN Err("e1") ELSE Err("e2"))]
Handlers == {HPages, HFailing, HBlocking, HMixed, HRewriting}

\* Handler::call(&self, &mut Request) -> Result<Response, Error>: the result.
call(h, r) == h[r.url].out

\* Handler::call(&self, &mut Request): the Request after the call.
call_req(h, r) == h[r.url].req

\* Request::from_http(http_req) -> Result<Request, String>
from_http(http_req) ==
    IF http_req.uri \in GoodUris
    THEN [tag |-> "Ok", req |-> [url |-> http_req.uri]]
    ELSE [tag |-> "Err", err |-> "unsupported request URI"]

\* A fresh raw response sink: default status and headers, nothing written.
NewSink == [status |-> 200, headers |-> "default", body |-> <<>>, ops |-> <<>>]

\* http_res.status = v
SetStatus(s, v) == [s EXCEPT !.status = v, !.ops = Append(@, "status")]

\* http_res.headers = h
SetHeaders(s, h) == [s EXCEPT !.headers = h, !.ops = Append(@, "headers")]

\* http_res.write(data)
Write(s, data) == [s EXCEPT !.body = Append(@, data), !.ops = Append(@, "write")]

\* Response::write_back(self, http_res): status, headers, body, in that order.
write_back(r, s) == Write(SetHeaders(SetStatus(s, r.status), r.headers), r.body)

\* Response::write_back does not fail silently: when the write to the sink
\* fails, it logs the failure.
write_back_log(l, ok) ==
    IF ok THEN l ELSE Append(l, [kind |-> "writing response"])

(***************************************************************************)
(* State                                                                   *)
(***************************************************************************)
VARIABLES
    phase,      \* where the caller is: "start", "around" (Iron built),
                \* "listen" (serve_forever entered), "serving" (bound),
                \* "exited" (serve loop over), "returned" (listen returned)
    iron,       \* the Iron value, None once listen has consumed it
    args,       \* the (ip, port) pair passed to listen
    arcs,       \* the Arc allocations: <<[value, strong, freed]>>
    listener,   \* the IronListener built by listen, None once dropped
    bound,      \* the address the transport bound, from get_config
    child,      \* child[c]: the clone of the listener serving connection c
    pc,         \* pc[c]: connection c's position in handle_request
    http_req,   \* http_req[c]: the raw request of connection c
    adapted,    \* adapted[c]: the result of Request::from_http; its req is
                \* the dispatch's local req, which the handler may write to
    res,        \* res[c]: the result of the handler's call
    sink,       \* sink[c]: http_res, the raw response sink of connection c
    wres,       \* wres[c]: what the sink's write returned: "none", "ok", "err"
    log,        \* log[c]: the error! entries emitted by connection c's dispatch
    calls       \* calls[c]: invocations of the handler's call for connection c

facadeVars == <<phase, iron, args, bound>>
sharedVars == <<arcs, listener, child>>
connVars == <<pc, http_req, adapted, res, sink, wres, log, calls>>
vars == <<phase, iron, args, arcs, listener, bound, child, pc, http_req,
          adapted, res, sink, wres, log, calls>>

Init ==
    /\ phase = "start"
    /\ iron = None
    /\ args = None
    /\ arcs = <<>>
    /\ listener = None
    /\ bound = None
    /\ child = [c \in Conns |-> None]
    /\ pc = [c \in Conns |-> "free"]
    /\ http_req = [c \in Conns |-> None]
    /\ adapted = [c \in Conns |-> None]
    /\ res = [c \in Conns |-> None]
    /\ sink = [c \in Conns |-> NewSink]
    /\ wres = [c \in Conns |-> "none"]
    /\ log = [c \in Conns |-> <<>>]
    /\ calls = [c \in Conns |-> 0]

(***************************************************************************)
(* Shared ownership: Arc<H> and the IronListener handles                   *)
(***************************************************************************)

\* Arc::new(value): a new allocation with one strong reference.
ArcNew(a, v) == Append(a, [value |-> v, strong |-> 1, freed |-> FALSE])

\* Fault: the clone copies the handler into an allocation of its own.
ArcCloneDeep(a, i) ==
    Append(a, [value |-> a[i].value, strong |-> 1, freed |-> FALSE])

\* Arc::clone: one more strong reference to the same allocation.
ArcClone(a, i) == [a EXCEPT ![i].strong = @ + 1]

\* Fault: the drop of any handle releases the handler.
ArcDropEager(a, i) == [a EXCEPT ![i].strong = @ - 1, ![i].freed = TRUE]

\* Drop of an Arc: one reference fewer; the value is released with the last.
ArcDrop(a, i) ==
    [a EXCEPT ![i].strong = @ - 1, ![i].freed = (a[i].strong = 1)]

\* The handler a listener handle refers to (self.handler).
Handler(l) == arcs[l.handler].value

\* IronListener { handler: Arc::new(self.handler), ip: ip, port: port }
NewListener(ip, port) ==
    [handler |-> Len(arcs) + 1, ip |-> ip, port |-> port]

\* impl Clone for IronListener: the fields of the new handle.
clone(l) == [handler |-> l.handler, ip |-> l.ip, port |-> l.port]

\* Fault: get_config reports the wildcard address instead of self.ip.
get_config_any_ip(l) == [bind_address |-> [ip |-> "0.0.0.0", port |-> l.port]]

\* IronListener::get_config
get_config(l) == [bind_address |-> [ip |-> l.ip, port |-> l.port]]

(***************************************************************************)
(* Server facade and transport                                             *)
(***************************************************************************)

\* Iron::around(handler)
around(h) ==
    /\ phase = "start"
    /\ iron' = [handler |-> h]
    /\ phase' = "around"
    /\ UNCHANGED <<args, bound, sharedVars, connVars>>

\* Iron::listen(self, ip, port), up to the call of serve_forever.
listen(ip, port) ==
    /\ phase = "around"
    /\ args' = [ip |-> ip, port |-> port]
    /\ arcs' = ArcNew(arcs, iron.handler)
    /\ listener' = NewListener(ip, port)
    /\ iron' = None
    /\ phase' = "listen"
    /\ UNCHANGED <<bound, child, connVars>>

\* serve_forever: the transport asks get_config for the address and binds it.
serve_bind ==
    /\ phase = "listen"
    /\ bound' = get_config(listener).bind_address
    /\ phase' = "serving"
    /\ UNCHANGED <<iron, args, sharedVars, connVars>>

\* serve_forever: binding fails, the serve loop exits and drops the listener.
\* Once bound, the serve loop accepts connections until the process ends.
serve_bind_fails ==
    /\ phase = "listen"
    /\ arcs' = ArcDrop(arcs, listener.handler)
    /\ listener' = None
    /\ phase' = "exited"
    /\ UNCHANGED <<iron, args, bound, child, connVars>>

\* Fault: the serve loop is started in the background and listen returns
\* while it runs.
ListenMayReturnEarly == phase \in {"serving", "exited"}

\* Whether listen may return: serve_forever is its last statement.
ListenMayReturn == phase = "exited"

\* Iron::listen returns to its caller.
listen_return ==
    /\ ListenMayReturn
    /\ phase' = "returned"
    /\ UNCHANGED <<iron, args, bound, sharedVars, connVars>>

\* serve_forever accepts connection c: it clones the listener for the
\* connection's task, which calls handle_request with the parsed raw request
\* and a fresh sink.
accept(c, uri) ==
    /\ phase = "serving"
    /\ pc[c] = "free"
    /\ \A d \in Conns : d < c => pc[d] # "free"
    /\ child' = [child EXCEPT ![c] = clone(listener)]
    /\ arcs' = ArcClone(arcs, listener.handler)
    /\ http_req' = [http_req EXCEPT ![c] = [uri |-> uri]]
    /\ pc' = [pc EXCEPT ![c] = "adapt"]
    /\ UNCHANGED <<facadeVars, listener, adapted, res, sink, wres, log, calls>>

\* The connection's task ends after handle_request returned: its clone of
\* the listener is dropped.
close(c) ==
    /\ pc[c] = "ret"
    /\ arcs' = ArcDrop(arcs, child[c].handler)
    /\ child' = [child EXCEPT ![c] = None]
    /\ pc' = [pc EXCEPT ![c] = "closed"]
    /\ UNCHANGED <<facadeVars, listener, http_req, adapted, res, sink, wres,
                   log, calls>>

(***************************************************************************)
(* IronListener::handle_request, one action per statement                  *)
(***************************************************************************)

\* Fault: req kept in a slot shared by all dispatches, overwritten by the
\* latest connection whose adaptation succeeded.
CallArgShared(c) ==
    LET ok == {d \in Conns : adapted[d] # None /\ adapted[d].tag = "Ok"}
        last == CHOOSE d \in ok : \A e \in ok : e <= d
    IN  adapted[last].req

\* The request handed to the handler: &mut req, the dispatch's own local.
CallArg(c) == adapted[c].req

\* Fault: the handler kept behind a mutex that is held across the call.
CallGuardLocked(c) == \A d \in Conns \ {c} : pc[d] # "incall"

\* What the dispatch must hold before it may enter the handler's call:
\* self.handler is an Arc<H>, called through a shared reference, no lock.
CallGuard(c) == TRUE

\* The statement after from_http: Ok(req) => req goes on to the dispatch,
\* Err(e) enters the fallback arm.
AfterAdapt(r) == IF r.tag = "Ok" THEN "call" ELSE "aerr_log"

\* Fault: the return of the adaptation fallback left out.
AfterAdaptErrFallsThrough == "call"

\* The statement after the adaptation fallback's write: return.
AfterAdaptErr == "ret"

\* Fault: a failed handler call is retried instead of answered.
MatchArmRetry(r) == IF r.tag = "Ok" THEN "write_back" ELSE "call"

\* The arm of match res taken for result r.
MatchArm(r) == IF r.tag = "Ok" THEN "write_back" ELSE "herr_log"

\* Fault: the core remembers that it has failed before (state kept between
\* requests) and answers later failures with another status.
FallbackStatusRemembered ==
    IF \E d \in Conns : pc[d] \in {"ret", "closed"} /\ sink[d].status = 500
    THEN 503
    ELSE InternalServerError

\* The status the fallback arms assign to http_res.status.
FallbackStatus == InternalServerError

\* Fault: the adaptation fallback names its error kind in the body.
AdaptErrBodyDistinct == "Bad Request"

\* The body the adaptation fallback writes.
AdaptErrBody == FallbackBody

\* Fault: the handler fallback writes another body.
HandlerErrBodyOther == "Error"

\* The body the handler fallback writes.
HandlerErrBody == FallbackBody

\* let mut req = match Request::from_http(http_req) { ... }
hr_adapt(c) ==
    /\ pc[c] = "adapt"
    /\ adapted' = [adapted EXCEPT ![c] = from_http(http_req[c])]
    /\ pc' = [pc EXCEPT ![c] = AfterAdapt(adapted'[c])]
    /\ UNCHANGED <<facadeVars, sharedVars, http_req, res, sink, wres, log, calls>>

\* Fault: the adaptation fallback answers without logging the error.
hr_adapt_err_silent(c) ==
    /\ pc[c] = "aerr_log"
    /\ pc' = [pc EXCEPT ![c] = "aerr_status"]
    /\ UNCHANGED <<facadeVars, sharedVars, http_req, adapted, res, sink, wres,
                   log, calls>>

\* error!("Error getting request: {}", e)
hr_adapt_err_log(c) ==
    /\ pc[c] = "aerr_log"
    /\ log' = [log EXCEPT ![c] =
                  Append(@, [kind |-> "getting request", err |-> adapted[c].err])]
    /\ pc' = [pc EXCEPT ![c] = "aerr_status"]
    /\ UNCHANGED <<facadeVars, sharedVars, http_req, adapted, res, sink, wres,
                   calls>>

\* http_res.status = ::http::status::InternalServerError
hr_adapt_err_status(c) ==
    /\ pc[c] = "aerr_status"
    /\ sink' = [sink EXCEPT ![c] = SetStatus(@, FallbackStatus)]
    /\ pc' = [pc EXCEPT ![c] = "aerr_write"]
    /\ UNCHANGED <<facadeVars, sharedVars, http_req, adapted, res, wres, log,
                   calls>>

\* let _ = http_res.write(b"Internal Server Error"); return
hr_adapt_err_write(c) ==
    /\ pc[c] = "aerr_write"
    /\ \E ok \in BOOLEAN :
          wres' = [wres EXCEPT ![c] = IF ok THEN "ok" ELSE "err"]
    /\ sink' = [sink EXCEPT ![c] = Write(@, AdaptErrBody)]
    /\ pc' = [pc EXCEPT ![c] = AfterAdaptErr]
    /\ UNCHANGED <<facadeVars, sharedVars, http_req, adapted, res, log, calls>>

\* self.handler.call(&mut req): the handler is entered
hr_call(c) ==
    /\ pc[c] = "call"
    /\ CallGuard(c)
    /\ calls' = [calls EXCEPT ![c] = @ + 1]
    /\ pc' = [pc EXCEPT ![c] = "incall"]
    /\ UNCHANGED <<facadeVars, sharedVars, http_req, adapted, res, sink, wres,
                   log>>

\* let res = self.handler.call(&mut req): the handler returns, unless this
\* call never does; req is then as the handler left it
hr_call_return(c) ==
    /\ pc[c] = "incall"
    /\ LET r == call(Handler(child[c]), CallArg(c)) IN
          /\ r.tag # "Hang"
          /\ res' = [res EXCEPT ![c] = r]
          /\ adapted' = [adapted EXCEPT
                            ![c].req = call_req(Handler(child[c]), CallArg(c))]
          /\ pc' = [pc EXCEPT ![c] = MatchArm(r)]
    /\ UNCHANGED <<facadeVars, sharedVars, http_req, sink, wres, log, calls>>

\* Fault: the core overwrites the status after the response was written back.
hr_write_back_then_status(c) ==
    /\ pc[c] = "write_back"
    /\ sink' = [sink EXCEPT ![c] =
                   SetStatus(write_back(res[c].res, @), InternalServerError)]
    /\ \E ok \in BOOLEAN :
          /\ wres' = [wres EXCEPT ![c] = IF ok THEN "ok" ELSE "err"]
          /\ log' = [log EXCEPT ![c] = write_back_log(@, ok)]
    /\ pc' = [pc EXCEPT ![c] = "ret"]
    /\ UNCHANGED <<facadeVars, sharedVars, http_req, adapted, res, calls>>

\* Ok(res) => res.write_back(http_res): a failed write is logged by the
\* response adapter
hr_write_back(c) ==
    /\ pc[c] = "write_back"
    /\ sink' = [sink EXCEPT ![c] = write_back(res[c].res, @)]
    /\ \E ok \in BOOLEAN :
          /\ wres' = [wres EXCEPT ![c] = IF ok THEN "ok" ELSE "err"]
          /\ log' = [log EXCEPT ![c] = write_back_log(@, ok)]
    /\ pc' = [pc EXCEPT ![c] = "ret"]
    /\ UNCHANGED <<facadeVars, sharedVars, http_req, adapted, res, calls>>

\* Fault: the handler's error is raised as a task failure instead of being
\* logged, and unwinds out of handle_request.
hr_handler_err_fail(c) ==
    /\ pc[c] = "herr_log"
    /\ pc' = [pc EXCEPT ![c] = "failed"]
    /\ UNCHANGED <<facadeVars, sharedVars, http_req, adapted, res, sink, wres,
                   log, calls>>

\* error!("Error handling {}: {}", req, e)
hr_handler_err_log(c) ==
    /\ pc[c] = "herr_log"
    /\ log' = [log EXCEPT ![c] =
                  Append(@, [kind |-> "handling", req |-> adapted[c].req,
                             err |-> res[c].err])]
    /\ pc' = [pc EXCEPT ![c] = "herr_status"]
    /\ UNCHANGED <<facadeVars, sharedVars, http_req, adapted, res, sink, wres,
                   calls>>

\* Fault: the handler fallback writes the body before it sets the status.
hr_handler_err_body_first(c) ==
    /\ pc[c] = "herr_status"
    /\ sink' = [sink EXCEPT ![c] =
                   SetStatus(Write(@, HandlerErrBody), FallbackStatus)]
    /\ pc' = [pc EXCEPT ![c] = "ret"]
    /\ UNCHANGED <<facadeVars, sharedVars, http_req, adapted, res, wres, log,
                   calls>>

\* http_res.status = ::http::status::InternalServerError
hr_handler_err_status(c) ==
    /\ pc[c] = "herr_status"
    /\ sink' = [sink EXCEPT ![c] = SetStatus(@, FallbackStatus)]
    /\ pc' = [pc EXCEPT ![c] = "herr_write"]
    /\ UNCHANGED <<facadeVars, sharedVars, http_req, adapted, res, wres, log,
                   calls>>

\* Fault: the handler fallback sets the status and returns without a write.
hr_handler_err_no_write(c) ==
    /\ pc[c] = "herr_write"
    /\ pc' = [pc EXCEPT ![c] = "ret"]
    /\ UNCHANGED <<facadeVars, sharedVars, http_req, adapted, res, sink, wres,
                   log, calls>>

\* let _ = http_res.write(b"Internal Server Error")
hr_handler_err_write(c) ==
    /\ pc[c] = "herr_write"
    /\ \E ok \in BOOLEAN :
          wres' = [wres EXCEPT ![c] = IF ok THEN "ok" ELSE "err"]
    /\ sink' = [sink EXCEPT ![c] = Write(@, HandlerErrBody)]
    /\ pc' = [pc EXCEPT ![c] = "ret"]
    /\ UNCHANGED <<facadeVars, sharedVars, http_req, adapted, res, log, calls>>

\* One step of connection c's dispatch.
handle_request(c) ==
    \/ hr_adapt(c)
    \/ hr_adapt_err_log(c)
    \/ hr_adapt_err_status(c)
    \/ hr_adapt_err_write(c)
    \/ hr_call(c)
    \/ hr_call_return(c)
    \/ hr_write_back(c)
    \/ hr_handler_err_log(c)
    \/ hr_handler_err_status(c)
    \/ hr_handler_err_write(c)

(***************************************************************************)
(* Specifications                                                          *)
(***************************************************************************)
Next ==
    \/ \E h \in Handlers : around(h)
    \/ \E b \in BindArgs : listen(b.ip, b.port)
    \/ serve_bind
    \/ serve_bind_fails
    \/ listen_return
    \/ \E c \in Conns, uri \in RawUris : accept(c, uri)
    \/ \E c \in Conns : handle_request(c)
    \/ \E c \in Conns : close(c)

Spec == Init /\ [][Next]_vars

\* The transport runs each connection's dispatch on its own task, and the
\* scheduler runs every task that can take a step.
\* listen returns once serve_forever, its last statement, has returned.
FairSpec ==
    /\ Spec
    /\ \A c \in Conns : WF_vars(handle_request(c)) /\ WF_vars(close(c))
    /\ WF_vars(listen_return)

(***************************************************************************)
(* Properties                                                              *)
(***************************************************************************)

\* handle_request has returned for connection c.
Returned(c) == pc[c] \in {"ret", "closed"}

\* Request::from_http failed for connection c's raw request.
AdaptFailed(c) == adapted[c] # None /\ adapted[c].tag = "Err"

\* The handler's call returned Err for connection c.
HandlerFailed(c) == res[c] # None /\ res[c].tag = "Err"

\* The handler's call returned Ok for connection c.
HandlerOk(c) == res[c] # None /\ res[c].tag = "Ok"

\* The handler given to around, shared by every listener handle.
SharedHandler == arcs[1].value

\* C1: a sink never holds more than one response, and once handle_request
\* has returned for a connection (adaptation failed, the handler returned Ok
\* or the handler returned Err) its sink holds exactly one.
C1_ExactlyOneResponse ==
    \A c \in Conns :
        /\ Len(sink[c].body) <= 1
        /\ Returned(c) => Len(sink[c].body) = 1

\* Two dispatches have returned, one after a failed adaptation and one after
\* a handler error, each with its one response.
C1_Witness ==
    \E c, d \in Conns :
        /\ Returned(c) /\ AdaptFailed(c) /\ Len(sink[c].body) = 1
        /\ Returned(d) /\ HandlerFailed(d) /\ Len(sink[d].body) = 1

\* C2: when from_http fails, the handler's call is never entered (its
\* invocation count stays 0), and when handle_request has returned the sink
\* has status 500 and the body Internal Server Error.
C2_AdaptFailureFallback ==
    \A c \in Conns :
        AdaptFailed(c) =>
            /\ calls[c] = 0
            /\ pc[c] \in {"aerr_log", "aerr_status", "aerr_write", "ret", "closed"}
            /\ Returned(c) =>
                  /\ sink[c].status = 500
                  /\ sink[c].body = <<"Internal Server Error">>

\* A dispatch whose adaptation failed has returned.
C2_Witness ==
    \E c \in Conns :
        /\ http_req[c] # None /\ http_req[c].uri = "*"
        /\ AdaptFailed(c) /\ Returned(c) /\ sink[c].status = 500

\* C3: when adaptation succeeds and the handler returns Err, the response on
\* the sink has status 500 and the body Internal Server Error, whatever the
\* request and the error value.
C3_HandlerFailureFallback ==
    \A c \in Conns :
        (Returned(c) /\ HandlerFailed(c)) =>
            /\ sink[c].status = 500
            /\ sink[c].body = <<"Internal Server Error">>

\* Two dispatches whose handler returned different errors for different
\* requests have both returned.
C3_Witness ==
    \E c, d \in Conns :
        /\ Returned(c) /\ HandlerFailed(c) /\ res[c].err = "e1"
        /\ Returned(d) /\ HandlerFailed(d) /\ res[d].err = "e2"
        /\ http_req[c] # http_req[d]

\* C4: when the handler returns Ok(response), the sink holds exactly that
\* response: its status, its headers, its body as the one write, and no
\* further operation of the core on the sink.
C4_SuccessPassThrough ==
    \A c \in Conns :
        (Returned(c) /\ HandlerOk(c)) =>
            /\ sink[c].status = res[c].res.status
            /\ sink[c].headers = res[c].res.headers
            /\ sink[c].body = <<res[c].res.body>>
            /\ sink[c].ops = <<"status", "headers", "write">>

\* A 200 with a known body and a non-200 with custom headers have both been
\* written back.
C4_Witness ==
    \E c, d \in Conns :
        /\ Returned(c) /\ HandlerOk(c) /\ res[c].res = R200
        /\ Returned(d) /\ HandlerOk(d) /\ res[d].res = R404
        /\ sink[d].headers = "x-custom"

\* C5: under every interleaving of the dispatches, the result a connection
\* got is the shared handler's result for that connection's own request, and
\* its sink holds the response for that result.
C5_NoCrossTalk ==
    \A c \in Conns :
        (Returned(c) /\ http_req[c].uri \in GoodUris) =>
            LET own == SharedHandler[http_req[c].uri].out IN
                /\ res[c] = own
                /\ own.tag = "Ok" =>
                      /\ sink[c].status = own.res.status
                      /\ sink[c].headers = own.res.headers
                      /\ sink[c].body = <<own.res.body>>
                /\ own.tag = "Err" =>
                      /\ sink[c].status = 500
                      /\ sink[c].body = <<"Internal Server Error">>

\* The second connection was accepted, served and answered while the first,
\* with another request, was still inside its dispatch; both get distinct
\* responses.
C5_Witness ==
    /\ NConn >= 2
    /\ pc[1] = "write_back" /\ Returned(2)
    /\ HandlerOk(1) /\ HandlerOk(2)
    /\ http_req[1].uri # http_req[2].uri
    /\ res[1].res # res[2].res
    /\ sink[2].body = <<res[2].res.body>>

\* The positions of handle_request inside its two error arms.
ErrorArm ==
    {"aerr_log", "aerr_status", "aerr_write", "herr_log", "herr_status",
     "herr_write"}

\* Everything that belongs to connection c's dispatch.
ConnState(c) ==
    <<pc[c], http_req[c], adapted[c], res[c], sink[c], wres[c], log[c],
      calls[c], child[c]>>

\* C6: a step of a dispatch inside an error arm (adaptation error or handler
\* error) stays in that arm or returns from handle_request normally, leaves
\* the serve loop and the listener as they are, and changes nothing of any
\* other connection's dispatch.
C6_ErrorContained ==
    [][\A c \in Conns :
          (pc[c] \in ErrorArm /\ pc'[c] # pc[c]) =>
              /\ pc'[c] \in ErrorArm \cup {"ret"}
              /\ phase' = phase
              /\ listener' = listener
              /\ \A d \in Conns \ {c} : ConnState(d)' = ConnState(d)]_vars

\* While the server keeps serving, one dispatch has ended in the handler
\* fallback and another, served by the same listener, got its own response.
C6_Witness ==
    \E c, d \in Conns :
        /\ phase = "serving" /\ listener # None
        /\ Returned(c) /\ HandlerFailed(c) /\ sink[c].status = 500
        /\ Returned(d) /\ HandlerOk(d) /\ sink[d].status = res[d].res.status

\* C7: the sink after an adaptation failure and the sink after a handler
\* failure are equal: status, headers, body and the operations made on it.
C7_FailuresIndistinguishable ==
    \A c, d \in Conns :
        (Returned(c) /\ AdaptFailed(c) /\ Returned(d) /\ HandlerFailed(d)) =>
            sink[c] = sink[d]

\* One dispatch has returned from the adaptation fallback and another from
\* the handler fallback.
C7_Witness ==
    \E c, d \in Conns :
        /\ Returned(c) /\ AdaptFailed(c) /\ sink[c].body # <<>>
        /\ Returned(d) /\ HandlerFailed(d) /\ sink[d].body # <<>>

\* The handler's call for connection c's request never returns.
Blocks(c) ==
    /\ http_req[c].uri \in GoodUris
    /\ SharedHandler[http_req[c].uri].out.tag = "Hang"

\* C8: every dispatched connection whose own handler call returns (or whose
\* adaptation fails) is eventually answered, whatever the other connections
\* do, in particular while another connection's handler call blocks forever.
C8_BlockedCallBlocksOnlyItself ==
    \A c \in Conns : (pc[c] # "free" /\ ~Blocks(c)) ~> Returned(c)

\* One connection is stuck inside a handler call that never returns, and
\* another one, accepted after it, went through its own call and is answered.
C8_Witness ==
    \E c, d \in Conns :
        /\ d < c
        /\ pc[d] = "incall" /\ Blocks(d)
        /\ Returned(c) /\ calls[c] = 1 /\ Len(sink[c].body) = 1

\* The listener handles alive: the original and the connections' clones.
LiveHandles == ({listener} \cup {child[c] : c \in Conns}) \ {None}

\* C9: get_config of the listener and of every clone reports the (ip, port)
\* pair passed to listen, and that is the address the transport binds.
C9_ConfigIsListenArgs ==
    /\ \A l \in LiveHandles :
          /\ get_config(l).bind_address.ip = args.ip
          /\ get_config(l).bind_address.port = args.port
    /\ bound # None => (bound.ip = args.ip /\ bound.port = args.port)

\* The server was started on a loopback address and serves connections
\* through clones of the listener.
C9_Witness ==
    /\ phase = "serving" /\ listener # None
    /\ args = [ip |-> "127.0.0.1", port |-> 3000]
    /\ bound = [ip |-> "127.0.0.1", port |-> 3000]
    /\ \A c \in Conns : child[c] # None

\* C10: listen returns only from a state in which the serve loop has exited,
\* and once the serve loop has exited listen does return to its caller.
C10_ListenReturnsAfterServeLoop ==
    /\ [][(phase # "returned" /\ phase' = "returned") => phase = "exited"]_vars
    /\ (phase = "exited" ~> phase = "returned")

\* Binding failed, the serve loop exited without serving, and listen has
\* returned.
C10_Witness == phase = "returned" /\ bound = None /\ args # None

\* The sink a dispatch must leave behind, as a function of the handler and
\* the raw request target alone.
ResponseFor(h, uri) ==
    IF uri \in GoodUris /\ h[uri].out.tag = "Ok"
    THEN [status |-> h[uri].out.res.status, headers |-> h[uri].out.res.headers,
          body |-> <<h[uri].out.res.body>>,
          ops |-> <<"status", "headers", "write">>]
    ELSE [status |-> 500, headers |-> "default",
          body |-> <<"Internal Server Error">>, ops |-> <<"status", "write">>]

\* C11: in every run (whatever the bind address, the order and interleaving
\* of the requests, the earlier requests and the write results), the sink of
\* a finished dispatch is one fixed function of the handler given to around
\* and of the raw request; so two servers built around the same handler write
\* the same responses for the same requests, and two equal requests of one
\* run get equal responses.
C11_SameHandlerSameResponses ==
    /\ \A c \in Conns :
          Returned(c) => sink[c] = ResponseFor(SharedHandler, http_req[c].uri)
    /\ \A c, d \in Conns :
          (Returned(c) /\ Returned(d) /\ http_req[c] = http_req[d]) =>
              sink[c] = sink[d]

\* The same raw request was served twice, the second time after the first
\* dispatch was over and after its write had failed, with the same response.
C11_Witness ==
    \E c, d \in Conns :
        /\ c < d /\ pc[c] = "closed" /\ Returned(d)
        /\ http_req[c] = http_req[d] /\ http_req[c].uri = "/b"
        /\ SharedHandler = HMixed
        /\ wres[c] = "err" /\ wres[d] = "ok"
        /\ sink[c] = sink[d]

\* C12: adapt, dispatch, respond, in this order: the handler's call is
\* entered at most once per dispatch, not at all before adaptation succeeded
\* or when it failed, exactly once when the dispatch is past the call (so
\* never again after an Err), and the sink is untouched until the handler
\* has returned.
C12_AdaptDispatchRespond ==
    \A c \in Conns :
        /\ calls[c] <= 1
        /\ (adapted[c] = None \/ AdaptFailed(c) \/ pc[c] = "call") => calls[c] = 0
        /\ (adapted[c] # None /\ adapted[c].tag = "Ok" /\ pc[c] # "call") =>
              calls[c] = 1
        /\ res[c] # None => (adapted[c] # None /\ adapted[c].tag = "Ok")
        /\ (sink[c].ops # <<>> /\ ~AdaptFailed(c)) => res[c] # None
        /\ adapted[c] = None => sink[c].ops = <<>>

\* A dispatch whose handler returned Err has answered after one call, and a
\* dispatch whose adaptation failed has answered without any.
C12_Witness ==
    \E c, d \in Conns :
        /\ Returned(c) /\ HandlerFailed(c) /\ calls[c] = 1
        /\ Returned(d) /\ AdaptFailed(d) /\ calls[d] = 0
        /\ sink[c].ops # <<>> /\ sink[d].ops # <<>>

\* The sink's write failed for connection c and the failure was logged.
WriteFailureLogged(c) ==
    \E i \in DOMAIN log[c] : log[c][i].kind = "writing response"

\* C13: whenever a write to a connection's sink has failed, on the success
\* path or on either fallback path, the failure is in the log and the sink
\* was given no second response.
C13_WriteFailureLogged ==
    \A c \in Conns :
        wres[c] = "err" => (WriteFailureLogged(c) /\ Len(sink[c].body) = 1)

\* Connection c's dispatch takes a step of handle_request.
DispatchStep(c) ==
    /\ pc[c] \notin {"free", "ret", "closed"}
    /\ pc'[c] # pc[c]

\* C14: every listener handle refers to the one allocation that holds the
\* handler given to around and carries the listener's ip and port; no step
\* changes the handler value, the number of allocations, or the ip and port
\* of a handle that stays alive; and a step of handle_request leaves the
\* allocation, reference count included, and every handle as they are.
C14_OnlyRefCountChanges ==
    /\ [](\A c \in Conns :
             child[c] # None =>
                 /\ child[c].handler = 1
                 /\ listener # None =>
                       /\ child[c].handler = listener.handler
                       /\ child[c].ip = listener.ip
                       /\ child[c].port = listener.port)
    /\ [][/\ arcs # <<>> =>
                /\ Len(arcs') = Len(arcs)
                /\ \A i \in DOMAIN arcs : arcs'[i].value = arcs[i].value
          /\ (listener # None /\ listener' # None) => listener' = listener
          /\ \A c \in Conns :
                /\ (child[c] # None /\ child'[c] # None) => child'[c] = child[c]
                /\ DispatchStep(c) =>
                      /\ arcs' = arcs
                      /\ listener' = listener
                      /\ child' = child]_vars

\* Every connection is served through its own clone, all of them sharing the
\* original's handler, and one dispatch has already answered.
C14_Witness ==
    /\ listener # None /\ SharedHandler = HPages
    /\ \A c \in Conns : child[c] # None /\ child[c].handler = listener.handler
    /\ arcs[1].strong = NConn + 1
    /\ \E c \in Conns : Returned(c) /\ HandlerOk(c)

\* The log of a failed dispatch, once its 500 response is under way: one
\* entry, the adaptation error alone, or the handler's error with the
\* dispatch's Request, rendered as the handler's call left it.
FailureLogged(c) ==
    /\ AdaptFailed(c) =>
          log[c] = <<[kind |-> "getting request", err |-> adapted[c].err]>>
    /\ HandlerFailed(c) =>
          log[c] = <<[kind |-> "handling",
                      req |-> SharedHandler[http_req[c].uri].req,
                      err |-> res[c].err]>>

\* C15 as stated: a failed dispatch has exactly one error log entry from the
\* moment its sink is first touched, and a dispatch whose handler returned
\* Ok has no log entry at all.
C15_OneEntryPerFailureNoneOnOk ==
    \A c \in Conns :
        /\ ((AdaptFailed(c) \/ HandlerFailed(c)) /\ sink[c].ops # <<>>) =>
              FailureLogged(c)
        /\ HandlerOk(c) => log[c] = <<>>

\* C15 as amended: a failed dispatch has exactly one error log entry from the
\* moment its sink is first touched, and a dispatch whose handler returned
\* Ok has no log entry unless the write of its response failed, in which
\* case its only entry is the response adapter's report of that failure.
C15_OneEntryPerFailure ==
    \A c \in Conns :
        /\ ((AdaptFailed(c) \/ HandlerFailed(c)) /\ sink[c].ops # <<>>) =>
              FailureLogged(c)
        /\ (HandlerOk(c) /\ wres[c] # "err") => log[c] = <<>>
        /\ (HandlerOk(c) /\ wres[c] = "err") =>
              log[c] = <<[kind |-> "writing response"]>>

\* One dispatch is about to write its 500 body after an adaptation failure,
\* one has answered after the failure of a handler that rewrote the url of
\* its request, each with its one log entry.
C15_Witness ==
    \E c, d \in Conns :
        /\ pc[c] = "aerr_write" /\ Len(log[c]) = 1
        /\ Returned(d) /\ HandlerFailed(d) /\ Len(log[d]) = 1
        /\ http_req[d].uri = "/a"
        /\ log[d][1] = [kind |-> "handling", req |-> [url |-> "/rewritten"],
                        err |-> "e1"]

\* The number of listener handles alive: the original and the clones.
NumLiveHandles ==
    (IF listener # None THEN 1 ELSE 0)
        + Cardinality({c \in Conns : child[c] # None})

\* Connection c's dispatch is in flight: accepted, and its task not yet over.
InFlight(c) == pc[c] \notin {"free", "closed"}

\* C16: the handler's reference count is at least the number of listener
\* handles alive, the handler is released only when none is left, and so it
\* is never released while a dispatch is in flight.
C16_HandlerOutlivesDispatches ==
    arcs # <<>> =>
        /\ arcs[1].strong >= NumLiveHandles
        /\ arcs[1].freed => NumLiveHandles = 0
        /\ \A c \in Conns :
              InFlight(c) =>
                  /\ child[c] # None
                  /\ ~arcs[child[c].handler].freed

\* An earlier connection's clone has been dropped while a later dispatch is
\* inside the handler's call, and the handler is still held.
C16_Witness ==
    \E c, d \in Conns :
        /\ pc[c] = "closed" /\ child[c] = None
        /\ pc[d] = "incall"
        /\ arcs[1].strong = NumLiveHandles /\ ~arcs[1].freed

\* C17: while a dispatch is adapting, about to call or inside the handler's
\* call, its sink is as it was handed in; in the fallback arms the status is
\* 500 whenever the body write is next or done, and the status was set before
\* the body was written.
C17_StatusBeforeBody ==
    \A c \in Conns :
        /\ pc[c] \in {"free", "adapt", "aerr_log", "call", "incall",
                      "write_back", "herr_log"} =>
              sink[c] = [status |-> 200, headers |-> "default", body |-> <<>>,
                         ops |-> <<>>]
        /\ pc[c] \in {"aerr_write", "herr_write"} =>
              /\ sink[c].status = 500
              /\ sink[c].body = <<>>
              /\ sink[c].ops = <<"status">>
        /\ ((AdaptFailed(c) \/ HandlerFailed(c)) /\ sink[c].body # <<>>) =>
              /\ sink[c].status = 500
              /\ sink[c].ops = <<"status", "write">>

\* One dispatch is inside the handler's call with its sink untouched, and
\* another has set the status of its fallback and not yet written the body.
C17_Witness ==
    \E c, d \in Conns :
        /\ pc[c] = "incall" /\ sink[c].ops = <<>>
        /\ pc[d] = "herr_write" /\ sink[d].status = 500 /\ sink[d].body = <<>>

====
